---- MODULE Spec2Model ----
(***************************************************************************)
(* One run of the contact-centre simulation of run_simulation(): the       *)
(* body of the two sweep loops for one (QUEUE_THRESHOLD_TO_SIMP,           *)
(* REQUEST_ARRIVAL_RATE) pair.                                             *)
(*                                                                         *)
(* The simpy environment is modelled by its documented behaviour: events   *)
(* are processed in the order (time, priority, event id); an Initialize    *)
(* event of a new process and the `until` event are URGENT, every other    *)
(* event is NORMAL; a Resource grants the head of its put queue when a     *)
(* slot is free, at request creation and when a Release event is           *)
(* processed.  The event a finished process triggers has no callback and  *)
(* is left out; the position of an event in the sequence `queue` stands    *)
(* for its event id.                                                       *)
(*                                                                         *)
(* Time is measured in ticks.  The gate poll interval 0.01 is              *)
(* POLL_INTERVAL ticks and the monitor interval 1 is MONITOR_INTERVAL      *)
(* ticks.  QoE values are in tenths.  The agent counts, the horizon, the   *)
(* intervals and ALPHA are scaled down from the source's values so that    *)
(* queues build, modes switch and the QoE clamp is reached within the      *)
(* horizon.                                                                *)
(***************************************************************************)
EXTENDS Integers, Sequences, FiniteSets, TLC

VARIABLES cfg, run, twin, stream

vars == <<cfg, run, twin, stream>>

----------------------------------------------------------------------------
(* Parameters, lines 15-28 *)

SIM_TIME == 13
NUM_AGENTS_FULL == 1
NUM_AGENTS_SIMPLIFIED == 3
AVG_PROCESSING_TIME == 1
QUEUE_THRESHOLD_TO_BASE == 0
QoE_FULL_BASE == 10
QoE_SIMPLIFIED_BASE == 8
ALPHA == 2
POLL_INTERVAL == 2
MONITOR_INTERVAL == 3

\* the first entry of queue_thresholds and the arrival rate 1 of arrival_rates
QUEUE_THRESHOLD_TO_SIMP == 1
REQUEST_ARRIVAL_RATE == 1

\* the values a draw of the standard exponential variate takes, in ticks
MaxDraw == 4
Draws == {1, MaxDraw}

\* simpy's event priorities, as the `urgent` flag of an event
URGENT == TRUE
NORMAL == FALSE

Max(a, b) == IF a >= b THEN a ELSE b

RECURSIVE Sum(_)
Sum(q) == IF q = <<>> THEN 0 ELSE Head(q) + Sum(Tail(q))

RemoveAt(q, i) == SubSeq(q, 1, i - 1) \o SubSeq(q, i + 1, Len(q))

----------------------------------------------------------------------------
(* The configuration of one run *)

DefaultCfg ==
    [rate |-> REQUEST_ARRIVAL_RATE, avg |-> AVG_PROCESSING_TIME,
     th_base |-> QUEUE_THRESHOLD_TO_BASE, th_simp |-> QUEUE_THRESHOLD_TO_SIMP,
     sim_time |-> SIM_TIME]

----------------------------------------------------------------------------
(* The event queue of simpy.Environment *)

Event(t, p, kind, id) == [time |-> t, urgent |-> p, kind |-> kind, id |-> id]

\* env.schedule(event, priority, delay): the position in the sequence is the
\* event id
Schedule(s, p, kind, id, delay) ==
    [s EXCEPT !.queue = Append(@, Event(s.now + delay, p, kind, id))]

BeforeIgnoringId(q, i, j) ==
    \/ q[i].time < q[j].time
    \/ q[i].time = q[j].time /\ q[i].urgent /\ ~q[j].urgent
    \/ q[i].time = q[j].time /\ q[i].urgent = q[j].urgent

\* heap order of the scheduled events: (time, priority, event id)
Before(q, i, j) ==
    \/ q[i].time < q[j].time
    \/ q[i].time = q[j].time /\ q[i].urgent /\ ~q[j].urgent
    \/ q[i].time = q[j].time /\ q[i].urgent = q[j].urgent /\ i <= j

\* env.step(): the events that can be popped next (one, as event ids differ)
NextEvents(q) == {i \in 1..Len(q) : \A j \in 1..Len(q) : Before(q, i, j)}

\* env.step(): pop the event and advance the clock to it
Pop(s, i) == [s EXCEPT !.now = s.queue[i].time, !.queue = RemoveAt(@, i)]

\* an exception leaves a process: the process event fails and env.step()
\* raises it when it is processed
Fail(s, err) == Schedule(s, NORMAL, err, 0, 0)

----------------------------------------------------------------------------
(* random.expovariate(lambd), with k the standard exponential variate drawn *)

\* line 104: expovariate(REQUEST_ARRIVAL_RATE)
InterArrival(k) ==
    IF cfg.rate = 0 THEN [err |-> "ZeroDivisionError", val |-> 0]
    ELSE IF cfg.rate < 0 THEN [err |-> "", val |-> 0 - (k \div (0 - cfg.rate))]
    ELSE [err |-> "", val |-> k \div cfg.rate]

\* line 83: expovariate(1.0 / AVG_PROCESSING_TIME)
ProcessingTime(k) ==
    IF cfg.avg = 0 THEN [err |-> "ZeroDivisionError", val |-> 0]
    ELSE [err |-> "", val |-> k * cfg.avg]

----------------------------------------------------------------------------
(* simpy.Resource(env, capacity=NUM_AGENTS_SIMPLIFIED), line 63 *)

Grant(s, id) ==
    Schedule([s EXCEPT !.users = @ \cup {id},
                       !.granted = Append(@, id),
                       !.granted_at = Append(@, s.now),
                       !.granted_mode = Append(@, s.agent_type)],
             NORMAL, "Granted", id, 0)

TriggerPutLast(s) ==
    IF s.put_queue # <<>> /\ Cardinality(s.users) < NUM_AGENTS_SIMPLIFIED
    THEN Grant([s EXCEPT !.put_queue = SubSeq(@, 1, Len(@) - 1)],
               s.put_queue[Len(s.put_queue)])
    ELSE s

\* BaseResource._trigger_put with Resource._do_put: the head of the put queue
\* is granted a slot when one is free
TriggerPut(s) ==
    IF s.put_queue # <<>> /\ Cardinality(s.users) < NUM_AGENTS_SIMPLIFIED
    THEN Grant([s EXCEPT !.put_queue = Tail(@)], Head(s.put_queue))
    ELSE s

\* agent_resource.request(), line 70: the caller joins the put queue
Request(s, id) ==
    TriggerPut([s EXCEPT !.put_queue = Append(@, id),
                         !.requested = Append(@, id)])

\* Request.__exit__, leaving the with block of line 70: the slot is freed at
\* once and a Release event is scheduled
Release(s, id) ==
    Schedule([s EXCEPT !.users = @ \ {id}], NORMAL, "Release", id, 0)

----------------------------------------------------------------------------
(* process_request(env, request_id), lines 66-97 *)

SetSt(s, id, st) == [s EXCEPT !.req[id].st = st]

\* lines 68-71: note the arrival time and ask the pool for a raw slot
ProcessRequestStart(s, id) ==
    Request([s EXCEPT !.req[id] = [st |-> "wait_slot", arrival_time |-> s.now]], id)

BaseQoE(agent_type) ==
    IF agent_type = "full" THEN QoE_FULL_BASE ELSE QoE_SIMPLIFIED_BASE

QoEUnclamped(s, w) == BaseQoE(s.agent_type) - ALPHA * w

\* lines 86-92: the QoE of a request that waited w, under the mode of s
QoE(s, w) ==
    LET base_qoe == BaseQoE(s.agent_type)
    IN  Max(0, base_qoe - ALPHA * w)

EnterServiceOutsideWith(s, id, k) ==
    LET w  == s.now - s.req[id].arrival_time
        s1 == [s EXCEPT !.busy_agents = @ + 1,
                        !.ndraws = @ + 1,
                        !.waiting_times = Append(@, w),
                        !.entered = Append(@, id),
                        !.entered_mode = Append(@, s.agent_type),
                        !.qoe_values = Append(@, QoE(s, w)),
                        !.users = @ \ {id}]
    IN  Schedule(SetSt(s1, id, "in_service"), NORMAL, "Service", id,
                 ProcessingTime(k).val)

\* lines 77-95: enter service; an exception leaves the with block (the slot
\* is released) and fails the process
EnterService(s, id, k) ==
    LET w  == s.now - s.req[id].arrival_time
        pt == ProcessingTime(k)
        s1 == [s EXCEPT !.busy_agents = @ + 1,
                        !.ndraws = @ + 1,
                        !.waiting_times = Append(@, w),
                        !.entered = Append(@, id),
                        !.entered_mode = Append(@, s.agent_type)]
        s2 == [s1 EXCEPT !.qoe_values = Append(@, QoE(s, w))]
    IN  IF pt.err # ""
        THEN Fail(Release(SetSt(s1, id, "failed"), id), pt.err)
        ELSE IF pt.val < 0
        THEN Fail(Release(SetSt(s2, id, "failed"), id), "ValueError")
        ELSE Schedule(SetSt(s2, id, "in_service"), NORMAL, "Service", id, pt.val)

GateClosedAtFullLimit(s) == s.busy_agents >= NUM_AGENTS_FULL

GateClosedOffByOne(s) == s.busy_agents > s.available_agents

\* line 74: the condition of the gate's loop
GateClosed(s) == s.busy_agents >= s.available_agents

GateCheckRecordingPolls(s, id, k) ==
    IF GateClosed(s)
    THEN Schedule(SetSt([s EXCEPT !.waiting_times =
                                      Append(@, s.now - s.req[id].arrival_time)],
                        id, "wait_gate"),
                  NORMAL, "Poll", id, POLL_INTERVAL)
    ELSE EnterService(s, id, k)

\* lines 74-75: the gate, checked when the slot is granted and at every poll
GateCheck(s, id, k) ==
    IF GateClosed(s)
    THEN Schedule(SetSt(s, id, "wait_gate"), NORMAL, "Poll", id, POLL_INTERVAL)
    ELSE EnterService(s, id, k)

ServiceEndSwitchingBack(s, id) ==
    LET s1 == Release(SetSt([s EXCEPT !.busy_agents = @ - 1], id, "done"), id)
    IN  IF s1.busy_agents <= NUM_AGENTS_FULL /\ s1.put_queue = <<>>
        THEN [s1 EXCEPT !.agent_type = "full",
                        !.available_agents = NUM_AGENTS_FULL]
        ELSE s1

ServiceEndKeepingBusy(s, id) == Release(SetSt(s, id, "done"), id)

\* line 97 and the end of the with block
ServiceEnd(s, id) ==
    Release(SetSt([s EXCEPT !.busy_agents = @ - 1], id, "done"), id)

----------------------------------------------------------------------------
(* generate_requests(env), lines 100-107 *)

\* lines 104-105
NextArrival(s, k) ==
    LET ia == InterArrival(k)
        s1 == [s EXCEPT !.ndraws = @ + 1]
    IN  IF ia.err # "" THEN Fail(s1, ia.err)
        ELSE IF ia.val < 0 THEN Fail(s1, "ValueError")
        ELSE Schedule(s1, NORMAL, "GenTimeout", 0, ia.val)

\* lines 106-107, then 104-105 again
Arrival(s, k) ==
    LET id == s.request_id + 1
        s1 == [s EXCEPT !.request_id = id,
                        !.req = Append(@, [st |-> "spawned", arrival_time |-> 0])]
    IN  NextArrival(Schedule(s1, URGENT, "InitReq", id, 0), k)

----------------------------------------------------------------------------
(* monitor_queue(env), lines 110-132 *)

ToSimplifiedAtThreshold(s, queue_length) ==
    queue_length >= cfg.th_simp /\ s.agent_type # "simplified"

\* line 116
ToSimplified(s, queue_length) ==
    queue_length > cfg.th_simp /\ s.agent_type # "simplified"

ToFullIgnoringBusy(s, queue_length) ==
    queue_length <= cfg.th_base /\ s.agent_type # "full"

\* lines 121-122
ToFull(s, queue_length) ==
    /\ queue_length <= cfg.th_base
    /\ s.agent_type # "full"
    /\ s.busy_agents <= NUM_AGENTS_FULL

monitor_queueCountingPollers(s) ==
    LET queue_length ==
              Len(s.put_queue)
                  + Cardinality({id \in 1..s.request_id :
                                    s.req[id].st = "wait_gate"})
        s1 == IF ToSimplified(s, queue_length)
              THEN [s EXCEPT !.agent_type = "simplified",
                             !.available_agents = NUM_AGENTS_SIMPLIFIED]
              ELSE IF ToFull(s, queue_length)
              THEN [s EXCEPT !.agent_type = "full",
                             !.available_agents = NUM_AGENTS_FULL]
              ELSE s
        num_simplified_agents ==
              IF s1.agent_type = "simplified"
              THEN s1.available_agents - NUM_AGENTS_FULL ELSE 0
        s2 == [s1 EXCEPT !.time_points = Append(@, s.now),
                         !.simplified_agent_counts_over_time =
                              Append(@, num_simplified_agents)]
    IN  Schedule(s2, NORMAL, "MonQ", 0, MONITOR_INTERVAL)

monitor_queueKeepingLimit(s) ==
    LET queue_length == Len(s.put_queue)
        s1 == IF ToSimplified(s, queue_length)
              THEN [s EXCEPT !.agent_type = "simplified",
                             !.available_agents = NUM_AGENTS_SIMPLIFIED]
              ELSE IF ToFull(s, queue_length)
              THEN [s EXCEPT !.agent_type = "full"]
              ELSE s
        num_simplified_agents ==
              IF s1.agent_type = "simplified"
              THEN s1.available_agents - NUM_AGENTS_FULL ELSE 0
        s2 == [s1 EXCEPT !.time_points = Append(@, s.now),
                         !.simplified_agent_counts_over_time =
                              Append(@, num_simplified_agents)]
    IN  Schedule(s2, NORMAL, "MonQ", 0, MONITOR_INTERVAL)

\* lines 113-132: one tick of the mode controller
monitor_queue(s) ==
    LET queue_length == Len(s.put_queue)
        s1 == IF ToSimplified(s, queue_length)
              THEN [s EXCEPT !.agent_type = "simplified",
                             !.available_agents = NUM_AGENTS_SIMPLIFIED]
              ELSE IF ToFull(s, queue_length)
              THEN [s EXCEPT !.agent_type = "full",
                             !.available_agents = NUM_AGENTS_FULL]
              ELSE s
        num_simplified_agents ==
              IF s1.agent_type = "simplified"
              THEN s1.available_agents - NUM_AGENTS_FULL ELSE 0
        s2 == [s1 EXCEPT !.time_points = Append(@, s.now),
                         !.simplified_agent_counts_over_time =
                              Append(@, num_simplified_agents)]
    IN  Schedule(s2, NORMAL, "MonQ", 0, MONITOR_INTERVAL)

(* monitor_qoe(env), lines 135-141 *)

\* a mean as the pair <<sum, count>>; the fallback value v as <<v, 1>>
MeanOfLatest(q, fallback) ==
    IF q # <<>> THEN <<q[Len(q)], 1>> ELSE <<fallback, 1>>

Mean(q, fallback) == IF q # <<>> THEN <<Sum(q), Len(q)>> ELSE <<fallback, 1>>

monitor_qoe(s) ==
    LET current_qoe == Mean(s.qoe_values, QoE_FULL_BASE)
        s1 == [s EXCEPT !.time_qoe = Append(@, s.now),
                        !.qoe_over_time = Append(@, current_qoe)]
    IN  Schedule(s1, NORMAL, "MonQoE", 0, MONITOR_INTERVAL)

----------------------------------------------------------------------------
(* run_simulation(), lines 47-63 and 144-154 *)

\* the state when env.run is called: the three processes are registered.
\* requested, granted, entered and entered_mode record the order of the calls
\* of request(), of the grants of a slot (granted_at, granted_mode: their
\* times and the mode at each) and of the entries into service, and the mode
\* at each entry; ndraws counts the calls
\* of random.expovariate.
Created ==
    [pc |-> "created", err |-> "", now |-> 0,
     queue |-> <<Event(0, URGENT, "InitGen", 0), Event(0, URGENT, "MonQ", 0),
                 Event(0, URGENT, "MonQoE", 0)>>,
     users |-> {}, put_queue |-> <<>>,
     agent_type |-> "full", busy_agents |-> 0,
     available_agents |-> NUM_AGENTS_FULL,
     request_id |-> 0, req |-> <<>>, ndraws |-> 0,
     qoe_values |-> <<>>, waiting_times |-> <<>>,
     time_points |-> <<>>, simplified_agent_counts_over_time |-> <<>>,
     time_qoe |-> <<>>, qoe_over_time |-> <<>>,
     requested |-> <<>>, granted |-> <<>>, granted_at |-> <<>>,
     granted_mode |-> <<>>,
     entered |-> <<>>,
     entered_mode |-> <<>>,
     average_qoe |-> <<0, 0>>, average_waiting_time |-> <<0, 0>>]

\* env.run(until=SIM_TIME), line 149: simpy rejects a horizon that is not
\* after the current time, else schedules the `until` event
EnvRun(s) ==
    IF cfg.sim_time <= s.now
    THEN [s EXCEPT !.pc = "error", !.err = "ValueError"]
    ELSE Schedule([s EXCEPT !.pc = "running"], URGENT, "Until", 0,
                  cfg.sim_time - s.now)

\* the `until` event ends env.run; lines 152-153
Finish(s) ==
    [s EXCEPT !.pc = "finished",
              !.average_qoe = Mean(s.qoe_values, QoE_FULL_BASE),
              !.average_waiting_time = Mean(s.waiting_times, 0)]

\* env.step() raises the exception of a failed process out of env.run
Raise(s, err) == [s EXCEPT !.pc = "error", !.err = err]

\* env.step(): the callbacks of event i of s, with draw k
Step(s, i, k) ==
    LET e == s.queue[i]
        p == Pop(s, i)
    IN  CASE e.kind = "InitGen"    -> NextArrival(p, k)
          [] e.kind = "GenTimeout" -> Arrival(p, k)
          [] e.kind = "InitReq"    -> ProcessRequestStart(p, e.id)
          [] e.kind = "Granted"    -> GateCheck(p, e.id, k)
          [] e.kind = "Poll"       -> GateCheck(p, e.id, k)
          [] e.kind = "Service"    -> ServiceEnd(p, e.id)
          [] e.kind = "Release"    -> TriggerPut(p)
          [] e.kind = "MonQ"       -> monitor_queue(p)
          [] e.kind = "MonQoE"     -> monitor_qoe(p)
          [] e.kind = "Until"      -> Finish(p)
          [] OTHER                 -> Raise(p, e.kind)

----------------------------------------------------------------------------
(* Actions: env.run and one per kind of event env.step processes *)

\* line 149, the call of env.run
RunStart ==
    /\ run.pc = "created"
    /\ run' = EnvRun(run)
    /\ UNCHANGED <<cfg, twin, stream>>

\* generate_requests up to its first timeout
GeneratorStart ==
    /\ run.pc = "running"
    /\ \E i \in NextEvents(run.queue), k \in Draws :
          /\ run.queue[i].kind = "InitGen"
          /\ run' = NextArrival(Pop(run, i), k)
    /\ UNCHANGED <<cfg, twin, stream>>

\* generate_requests resumed by its timeout: one arrival
GenerateRequests ==
    /\ run.pc = "running"
    /\ \E i \in NextEvents(run.queue), k \in Draws :
          /\ run.queue[i].kind = "GenTimeout"
          /\ run' = Arrival(Pop(run, i), k)
    /\ UNCHANGED <<cfg, twin, stream>>

\* process_request up to `yield req`
RequestSlot ==
    /\ run.pc = "running"
    /\ \E i \in NextEvents(run.queue) :
          /\ run.queue[i].kind = "InitReq"
          /\ run' = ProcessRequestStart(Pop(run, i), run.queue[i].id)
    /\ UNCHANGED <<cfg, twin, stream>>

\* process_request resumed by the grant of its slot
SlotGranted ==
    /\ run.pc = "running"
    /\ \E i \in NextEvents(run.queue), k \in Draws :
          /\ run.queue[i].kind = "Granted"
          /\ run' = GateCheck(Pop(run, i), run.queue[i].id, k)
    /\ UNCHANGED <<cfg, twin, stream>>

\* process_request resumed by the timeout of line 75
GatePoll ==
    /\ run.pc = "running"
    /\ \E i \in NextEvents(run.queue), k \in Draws :
          /\ run.queue[i].kind = "Poll"
          /\ run' = GateCheck(Pop(run, i), run.queue[i].id, k)
    /\ UNCHANGED <<cfg, twin, stream>>

\* process_request resumed by the timeout of line 95
ServiceDone ==
    /\ run.pc = "running"
    /\ \E i \in NextEvents(run.queue) :
          /\ run.queue[i].kind = "Service"
          /\ run' = ServiceEnd(Pop(run, i), run.queue[i].id)
    /\ UNCHANGED <<cfg, twin, stream>>

\* the Release event: its callback _trigger_put
SlotReleased ==
    /\ run.pc = "running"
    /\ \E i \in NextEvents(run.queue) :
          /\ run.queue[i].kind = "Release"
          /\ run' = TriggerPut(Pop(run, i))
    /\ UNCHANGED <<cfg, twin, stream>>

\* one tick of monitor_queue
MonitorQueue ==
    /\ run.pc = "running"
    /\ \E i \in NextEvents(run.queue) :
          /\ run.queue[i].kind = "MonQ"
          /\ run' = monitor_queue(Pop(run, i))
    /\ UNCHANGED <<cfg, twin, stream>>

\* one tick of monitor_qoe
MonitorQoE ==
    /\ run.pc = "running"
    /\ \E i \in NextEvents(run.queue) :
          /\ run.queue[i].kind = "MonQoE"
          /\ run' = monitor_qoe(Pop(run, i))
    /\ UNCHANGED <<cfg, twin, stream>>

\* the `until` event
Horizon ==
    /\ run.pc = "running"
    /\ \E i \in NextEvents(run.queue) :
          /\ run.queue[i].kind = "Until"
          /\ run' = Finish(Pop(run, i))
    /\ UNCHANGED <<cfg, twin, stream>>

\* the event of a process that an exception left
ProcessFailed ==
    /\ run.pc = "running"
    /\ \E i \in NextEvents(run.queue) :
          /\ run.queue[i].kind \in {"ZeroDivisionError", "ValueError"}
          /\ run' = Raise(Pop(run, i), run.queue[i].kind)
    /\ UNCHANGED <<cfg, twin, stream>>

Init ==
    /\ cfg = DefaultCfg
    /\ run = Created
    /\ twin = Created
    /\ stream = <<>>

Next ==
    \/ RunStart
    \/ GeneratorStart
    \/ GenerateRequests
    \/ RequestSlot
    \/ SlotGranted
    \/ GatePoll
    \/ ServiceDone
    \/ SlotReleased
    \/ MonitorQueue
    \/ MonitorQoE
    \/ Horizon

Spec == Init /\ [][Next]_vars

----------------------------------------------------------------------------
(* Two runs of one configuration on one seed: the n-th call of              *)
(* random.expovariate of either run returns stream[n]                       *)

\* the draw of the next call of random.expovariate in s, k when the stream
\* has not been drawn that far
DrawOf(s, k) == IF s.ndraws < Len(stream) THEN stream[s.ndraws + 1] ELSE k

\* t is s after one step of env.run
Advance(s, t, k) ==
    IF s.pc = "running"
    THEN \E i \in NextEvents(s.queue) : t = Step(s, i, DrawOf(s, k))
    ELSE t = s

TwinStart ==
    /\ run.pc = "created"
    /\ run' = EnvRun(run)
    /\ twin' = EnvRun(twin)
    /\ UNCHANGED <<cfg, stream>>

TwinStep ==
    /\ "running" \in {run.pc, twin.pc}
    /\ \E k \in Draws :
          /\ Advance(run, run', k)
          /\ Advance(twin, twin', k)
          /\ stream' = IF Max(run'.ndraws, twin'.ndraws) > Len(stream)
                       THEN Append(stream, k) ELSE stream
    /\ UNCHANGED cfg

NextDet == TwinStart \/ TwinStep

SpecDet == Init /\ [][NextDet]_vars

----------------------------------------------------------------------------
(* Runs of any configuration, the ones spec.md calls invalid included: the  *)
(* source has the parameters as literals, lines 15-28                       *)

Configs ==
    {DefaultCfg,
     [DefaultCfg EXCEPT !.rate = 0], [DefaultCfg EXCEPT !.rate = -1],
     [DefaultCfg EXCEPT !.avg = 0], [DefaultCfg EXCEPT !.avg = -1],
     [DefaultCfg EXCEPT !.th_base = DefaultCfg.th_simp],
     [DefaultCfg EXCEPT !.sim_time = 0]}

InitCfg ==
    /\ cfg \in Configs
    /\ run = Created
    /\ twin = Created
    /\ stream = <<>>

NextCfg == Next \/ ProcessFailed

SpecCfg == InitCfg /\ [][NextCfg]_vars

----------------------------------------------------------------------------
(* The run with no horizon, env.run() without `until`, for what must happen
   eventually.  Nothing the processes decide on depends on the absolute time,
   on the number of a request or on the collected samples, so after every
   step the clock is set back to 0, the requests that are done are dropped
   and the others renumbered in order, and the collections are emptied: the
   states of the endless run are then finitely many. *)

\* the most requests in the system at once; with that many the generator's
\* next request comes later
MaxLive == 4

\* the state s with the clock at 0, without the requests that are done and
\* without the samples and records
Forget(s) ==
    LET Renumber(id) ==
            IF id = 0 \/ s.req[id].st = "done" THEN 0
            ELSE id - Cardinality({d \in 1..id : s.req[d].st = "done"})
        live == SelectSeq(s.req, LAMBDA r : r.st # "done")
    IN  [s EXCEPT
           !.now = 0,
           !.queue = [i \in 1..Len(s.queue) |->
                         [s.queue[i] EXCEPT !.time = @ - s.now,
                                            !.id = Renumber(@)]],
           !.users = {Renumber(id) : id \in s.users},
           !.put_queue = [i \in 1..Len(s.put_queue) |->
                             Renumber(s.put_queue[i])],
           !.req = [i \in 1..Len(live) |->
                       [live[i] EXCEPT !.arrival_time = 0]],
           !.request_id = Len(live),
           !.ndraws = 0,
           !.qoe_values = <<>>, !.waiting_times = <<>>,
           !.time_points = <<>>, !.simplified_agent_counts_over_time = <<>>,
           !.time_qoe = <<>>, !.qoe_over_time = <<>>,
           !.requested = <<>>, !.granted = <<>>, !.granted_at = <<>>,
           !.granted_mode = <<>>, !.entered = <<>>, !.entered_mode = <<>>]

\* env.run() with no horizon
LiveStart ==
    /\ run.pc = "created"
    /\ run' = [run EXCEPT !.pc = "running"]
    /\ UNCHANGED <<cfg, twin, stream>>

\* env.step() on the next event
LiveStep ==
    /\ run.pc = "running"
    /\ \E i \in NextEvents(run.queue), k \in Draws :
          /\ run.queue[i].kind = "GenTimeout" => run.request_id < MaxLive
          /\ run' = Forget(Step(run, i, k))
    /\ UNCHANGED <<cfg, twin, stream>>

\* with MaxLive requests in the system the inter-arrival time of line 104 is
\* longer by another draw
LivePostpone ==
    /\ run.pc = "running"
    /\ run.request_id >= MaxLive
    /\ \E i \in NextEvents(run.queue), k \in Draws :
          /\ run.queue[i].kind = "GenTimeout"
          /\ run' = Forget(NextArrival(Pop(run, i), k))
    /\ UNCHANGED <<cfg, twin, stream>>

NextLive == LiveStart \/ LiveStep \/ LivePostpone

\* the scheduler always processes the next event
SpecLive == Init /\ [][NextLive]_vars /\ WF_vars(NextLive)

----------------------------------------------------------------------------
(* Properties *)

\* the next step of env.run processes an event of one of these kinds
Firing(kinds) ==
    /\ run.pc = "running"
    /\ NextEvents(run.queue) # {}
    /\ \A i \in NextEvents(run.queue) : run.queue[i].kind \in kinds

AtGate(s) == {id \in 1..s.request_id : s.req[id].st = "wait_gate"}

Last(q) == q[Len(q)]

\* C1: in every reachable state busy_agents is at most available_agents, the
\* limit of the active mode.
C1_BusyWithinLimit == run.busy_agents <= run.available_agents

\* a request is held at the gate because every available agent is busy
C1_Witness ==
    /\ run.busy_agents = run.available_agents
    /\ AtGate(run) # {}

\* C2: a step that changes the mode from simplified to full is a tick of
\* monitor_queue taken with queue length <= threshold-to-base and
\* busy_agents <= NUM_AGENTS_FULL.
C2_SwitchToFull ==
    [][(run.agent_type = "simplified" /\ run'.agent_type = "full")
         => /\ Firing({"MonQ"})
            /\ Len(run.put_queue) <= cfg.th_base
            /\ run.busy_agents <= NUM_AGENTS_FULL]_vars

\* the mode is full again after simplified samples
C2_Witness ==
    /\ run.agent_type = "full"
    /\ \E i \in 1..Len(run.simplified_agent_counts_over_time) :
          run.simplified_agent_counts_over_time[i] > 0

\* C3: a tick of monitor_queue in full mode with queue length >
\* threshold-to-simplify leaves the mode simplified and the limit
\* NUM_AGENTS_SIMPLIFIED; with queue length <= threshold-to-simplify it leaves
\* the mode full.
C3_SwitchToSimplified ==
    [][(Firing({"MonQ"}) /\ run.agent_type = "full")
         => IF Len(run.put_queue) > cfg.th_simp
            THEN /\ run'.agent_type = "simplified"
                 /\ run'.available_agents = NUM_AGENTS_SIMPLIFIED
            ELSE run'.agent_type = "full"]_vars

\* a tick has just switched to simplified on a queue longer than the threshold
C3_Witness ==
    /\ run.agent_type = "simplified"
    /\ Len(run.put_queue) > cfg.th_simp
    /\ Len(run.time_points) >= 2
    /\ Last(run.time_points) = run.now
    /\ run.simplified_agent_counts_over_time[Len(run.time_points) - 1] = 0

\* C4: a request never enters service before a request that arrived before
\* it.
C4_FifoService ==
    \A j \in 1..Len(run.entered) : \A a \in 1..run.request_id :
        (/\ run.req[a].st # "spawned"
         /\ run.req[a].arrival_time < run.req[run.entered[j]].arrival_time)
        => \E i \in 1..(j - 1) : run.entered[i] = a

\* C5: slots are granted in the order of the calls of request(): the granted
\* callers are the first callers, in their order, and the others wait in the
\* put queue in their order.
C5_FifoGrant ==
    /\ Len(run.granted) <= Len(run.requested)
    /\ run.granted = SubSeq(run.requested, 1, Len(run.granted))
    /\ run.put_queue =
          SubSeq(run.requested, Len(run.granted) + 1, Len(run.requested))

\* a caller that waited in the put queue has been granted a slot while others
\* still wait
C5_Witness ==
    /\ Len(run.put_queue) >= 2
    /\ \E i \in 1..Len(run.granted) :
          run.granted_at[i] > run.req[run.granted[i]].arrival_time

\* C6: every recorded QoE value lies between 0 and the baseline of the mode
\* that was active when its request entered service, and no step changes a
\* recorded value.
C6_QoEWithinBaseline ==
    /\ [](/\ Len(run.qoe_values) = Len(run.entered_mode)
          /\ \A i \in 1..Len(run.qoe_values) :
                /\ 0 <= run.qoe_values[i]
                /\ run.qoe_values[i] <= BaseQoE(run.entered_mode[i]))
    /\ [][/\ Len(run'.qoe_values) >= Len(run.qoe_values)
          /\ \A i \in 1..Len(run.qoe_values) :
                run'.qoe_values[i] = run.qoe_values[i]]_vars

\* a clamped value and a value of simplified mode are on record and the mode
\* has changed back since
C6_Witness ==
    /\ run.agent_type = "full"
    /\ \E i \in 1..Len(run.qoe_values) : run.qoe_values[i] = 0
    /\ \E i \in 1..Len(run.qoe_values) :
          /\ run.entered_mode[i] = "simplified"
          /\ run.qoe_values[i] > 0

Invalid(c) == c.rate <= 0 \/ c.avg <= 0 \/ c.th_base >= c.th_simp

\* C7: a run of an invalid configuration is rejected before it starts: it
\* has no arrival, no mode transition and no metric sample.
C7_FailFast ==
    Invalid(cfg) =>
        /\ run.pc \in {"created", "error"}
        /\ run.request_id = 0
        /\ run.agent_type = "full"
        /\ run.time_points = <<>>
        /\ run.time_qoe = <<>>

\* C8: a run with horizon 0 ends without an error and reports the mean QoE
\* QoE_FULL_BASE and the mean wait 0.
C8_EmptyRun ==
    (cfg.sim_time = 0 /\ run.pc # "created") =>
        /\ run.pc = "finished"
        /\ run.average_qoe = <<QoE_FULL_BASE, 1>>
        /\ run.average_waiting_time = <<0, 1>>

C10_ModeOnlyByMonitor ==
    /\ [](run.agent_type \in {"full", "simplified"})
    /\ [][~Firing({"MonQ"})
            => /\ run'.agent_type = run.agent_type
               /\ run'.available_agents = run.available_agents]_vars

\* in simplified mode requests have arrived, entered service and finished
\* service, and QoE was sampled, since the switch
C10_Witness ==
    /\ run.agent_type = "simplified"
    /\ \E id \in 1..run.request_id :
          /\ run.req[id].st = "done"
          /\ \E i \in 1..Len(run.entered) :
                run.entered[i] = id /\ run.entered_mode[i] = "simplified"
    /\ Last(run.time_qoe) = Last(run.time_points)

\* C11: a request goes through waiting for a slot (suspended at line 71),
\* waiting at the gate (lines 74-75), in service (line 95) and done in that
\* order, without going back and without leaving service except to done.  It
\* passes the gate, at once or after polling, only while it holds a raw slot
\* and with the gate open, and it holds the slot at the gate and in service.
C11_Lifecycle ==
    /\ [](\A id \in 1..run.request_id :
            run.req[id].st \in {"wait_gate", "in_service"} => id \in run.users)
    /\ [][\A id \in 1..run'.request_id :
            IF id > run.request_id THEN run'.req[id].st = "spawned"
            ELSE LET a == run.req[id].st
                     b == run'.req[id].st
                 IN  \/ a = b
                     \/ a = "spawned" /\ b = "wait_slot"
                     \/ a = "wait_slot" /\ b = "wait_gate" /\ id \in run.users
                     \/ /\ a \in {"wait_slot", "wait_gate"}
                        /\ b = "in_service"
                        /\ id \in run.users
                        /\ ~GateClosed(run)
                     \/ a = "in_service" /\ b = "done"]_vars

\* requests are in each of the four states, and one that polled at the gate is
\* done
C11_Witness ==
    /\ \E id \in 1..run.request_id :
          run.req[id].st = "wait_slot" /\ id \notin run.users
    /\ AtGate(run) # {}
    /\ \E id \in 1..run.request_id : run.req[id].st = "in_service"
    /\ \E i \in 1..Len(run.entered) :
          /\ run.req[run.entered[i]].st = "done"
          /\ run.waiting_times[i] >= POLL_INTERVAL

\* C12: the value monitor_queue samples at a tick is the number of busy agents
\* beyond NUM_AGENTS_FULL at that instant, and 0 in full mode.
C12_ExtraAgentsInUse ==
    [][Len(run'.time_points) > Len(run.time_points) =>
          Last(run'.simplified_agent_counts_over_time) =
              IF run'.agent_type = "full" THEN 0
              ELSE Max(run'.busy_agents - NUM_AGENTS_FULL, 0)]_vars

\* C13: a sample of monitor_qoe is the mean of all QoE values recorded so far,
\* or QoE_FULL_BASE when there is none, whatever the mode; the tick stamps the
\* sample with the current time and changes nothing else but the event queue.
C13_QoESample ==
    [][Len(run'.qoe_over_time) > Len(run.qoe_over_time) =>
          /\ run'.qoe_over_time =
                 Append(run.qoe_over_time, Last(run'.qoe_over_time))
          /\ run'.time_qoe = Append(run.time_qoe, run'.now)
          /\ LET m == Last(run'.qoe_over_time)
             IN  IF run.qoe_values = <<>>
                 THEN m[1] = QoE_FULL_BASE * m[2]
                 ELSE m[1] * Len(run.qoe_values) = Sum(run.qoe_values) * m[2]
          /\ Last(run'.qoe_over_time)[2] > 0
          /\ [run' EXCEPT !.qoe_over_time = run.qoe_over_time,
                          !.time_qoe = run.time_qoe,
                          !.queue = run.queue,
                          !.now = run.now] = run]_vars

\* a sample taken before any QoE value exists, and one taken in simplified mode
\* over several different QoE values
C13_Witness ==
    /\ Len(run.qoe_over_time) >= 2
    /\ run.qoe_over_time[1] = <<QoE_FULL_BASE, 1>>
    /\ Last(run.time_qoe) = run.now
    /\ run.agent_type = "simplified"
    /\ Last(run.qoe_over_time) = <<Sum(run.qoe_values), Len(run.qoe_values)>>
    /\ \E i, j \in 1..Len(run.qoe_values) : run.qoe_values[i] # run.qoe_values[j]

\* the requests that have entered service
InServiceOrDone(s) ==
    {id \in 1..s.request_id : s.req[id].st \in {"in_service", "done"}}

\* C14: waiting_times and qoe_values have one entry per request that has
\* entered service, no wait is negative, and a step either leaves both
\* collections alone or is the entry into service of one request and appends
\* its wait (now - arrival time) to the one and its QoE to the other.
C14_CollectionsGrowTogether ==
    /\ [](/\ Len(run.waiting_times) = Cardinality(InServiceOrDone(run))
          /\ Len(run.qoe_values) = Cardinality(InServiceOrDone(run))
          /\ \A i \in 1..Len(run.waiting_times) : run.waiting_times[i] >= 0)
    /\ [][LET new == InServiceOrDone(run') \ InServiceOrDone(run)
          IN  IF new = {}
              THEN /\ run'.waiting_times = run.waiting_times
                   /\ run'.qoe_values = run.qoe_values
              ELSE \E id \in new :
                      /\ new = {id}
                      /\ run'.req[id].st = "in_service"
                      /\ run'.waiting_times =
                             Append(run.waiting_times,
                                    run'.now - run'.req[id].arrival_time)
                      /\ Len(run'.qoe_values) = Len(run.qoe_values) + 1
                      /\ SubSeq(run'.qoe_values, 1, Len(run.qoe_values)) =
                             run.qoe_values]_vars

\* several requests are in the collections, one of them after waiting, one of
\* them already done
C14_Witness ==
    /\ Len(run.waiting_times) >= 3
    /\ Len(run.qoe_values) = Len(run.waiting_times)
    /\ \E i \in 1..Len(run.waiting_times) : run.waiting_times[i] > 0
    /\ \E id \in InServiceOrDone(run) : run.req[id].st = "done"
    /\ \E id \in InServiceOrDone(run) : run.req[id].st = "in_service"

\* C15: in every state the limit available_agents is NUM_AGENTS_FULL in full
\* mode and NUM_AGENTS_SIMPLIFIED in simplified mode, and a step changes the
\* mode exactly when it changes the limit.
C15_LimitMatchesMode ==
    /\ [](/\ run.agent_type \in {"full", "simplified"}
          /\ run.agent_type = "full" => run.available_agents = NUM_AGENTS_FULL
          /\ run.agent_type = "simplified" =>
                 run.available_agents = NUM_AGENTS_SIMPLIFIED)
    /\ [][run'.agent_type # run.agent_type <=>
              run'.available_agents # run.available_agents]_vars

\* the mode has gone to simplified and back to full, with requests in service
C15_Witness ==
    /\ run.agent_type = "full"
    /\ run.available_agents = NUM_AGENTS_FULL
    /\ run.busy_agents > 0
    /\ \E i \in 1..Len(run.simplified_agent_counts_over_time) :
          run.simplified_agent_counts_over_time[i] > 0

\* the requests at line 95
InService(s) == {id \in 1..s.request_id : s.req[id].st = "in_service"}

\* C16: busy_agents is the number of requests in service, is never negative
\* and never more than the number of raw slots held; it goes up by one exactly
\* in the step in which one request enters service and down by one exactly in
\* the step in which one request ends service, and that request holds its slot
\* up to that step and gives it back in it.
C16_BusyCountsInService ==
    /\ [](/\ run.busy_agents = Cardinality(InService(run))
          /\ run.busy_agents >= 0
          /\ run.busy_agents <= Cardinality(run.users)
          /\ InService(run) \subseteq run.users)
    /\ [][LET in  == InService(run') \ InService(run)
              out == InService(run) \ InService(run')
          IN  /\ Cardinality(in) + Cardinality(out) <= 1
              /\ run'.busy_agents =
                     run.busy_agents + Cardinality(in) - Cardinality(out)
              /\ \A id \in out : /\ run'.req[id].st = "done"
                                 /\ id \in run.users
                                 /\ id \notin run'.users]_vars

\* every raw slot is held by a request in service, after earlier requests
\* have ended service
C16_Witness ==
    /\ run.busy_agents = NUM_AGENTS_SIMPLIFIED
    /\ Cardinality(run.users) = NUM_AGENTS_SIMPLIFIED
    /\ \E id \in 1..run.request_id : run.req[id].st = "done"

\* the requests that have arrived and are not done
InSystem(s) == {id \in 1..s.request_id : s.req[id].st # "done"}

\* the slots given back at the current instant whose Release event has not
\* been processed yet, so that the head of the wait queue has not got them
PendingReleases(s) ==
    Cardinality({i \in 1..Len(s.queue) : s.queue[i].kind = "Release"})

\* a step that is a tick of monitor_queue
Tick == Len(run'.time_points) > Len(run.time_points)

\* C17 as stated: at a tick the switch to simplified mode is decided by the
\* length of the pool's wait queue alone; when that queue is not empty all
\* NUM_AGENTS_SIMPLIFIED raw slots are held; and the switch is made only with
\* more than NUM_AGENTS_SIMPLIFIED + QUEUE_THRESHOLD_TO_SIMP requests in the
\* system.
C17_QueueImpliesAllSlotsHeld ==
    [][Tick =>
          /\ (run.agent_type = "full" /\ run'.agent_type = "simplified") <=>
                 (run.agent_type = "full"
                     /\ Len(run.put_queue) > QUEUE_THRESHOLD_TO_SIMP)
          /\ run.put_queue # <<>> =>
                 Cardinality(run.users) = NUM_AGENTS_SIMPLIFIED
          /\ (run.agent_type = "full" /\ run'.agent_type = "simplified") =>
                 Cardinality(InSystem(run)) >
                     NUM_AGENTS_SIMPLIFIED + QUEUE_THRESHOLD_TO_SIMP]_vars

\* C17, amended: at a tick the switch to simplified mode is decided by the
\* length of the pool's wait queue alone, which does not count the requests
\* polling at the gate; whenever that queue is not empty every raw slot is
\* held or was given back at this instant and is not handed over yet; and the
\* switch is made only when the requests in the system together with the slots
\* not handed over yet are more than NUM_AGENTS_SIMPLIFIED +
\* QUEUE_THRESHOLD_TO_SIMP.
C17_QueueCountsUngranted ==
    /\ [](/\ Cardinality(run.users) <= NUM_AGENTS_SIMPLIFIED
          /\ run.put_queue # <<>> =>
                 Cardinality(run.users) + PendingReleases(run) >=
                     NUM_AGENTS_SIMPLIFIED)
    /\ [][Tick =>
             /\ (run.agent_type = "full" /\ run'.agent_type = "simplified") <=>
                    (run.agent_type = "full"
                        /\ Len(run.put_queue) > QUEUE_THRESHOLD_TO_SIMP)
             /\ (run.agent_type = "full" /\ run'.agent_type = "simplified") =>
                    Cardinality(InSystem(run)) + PendingReleases(run) >
                        NUM_AGENTS_SIMPLIFIED + QUEUE_THRESHOLD_TO_SIMP]_vars

\* a tick, the last thing that happened, has just switched to simplified
\* mode while a raw slot given back at this instant was not handed over yet;
\* at an earlier tick NUM_AGENTS_SIMPLIFIED - NUM_AGENTS_FULL requests were at
\* the gate in full mode without a switch
C17_Witness ==
    /\ run.pc = "running"
    /\ Last(run.queue).kind = "MonQ"
    /\ Len(run.time_points) >= 2
    /\ Last(run.simplified_agent_counts_over_time) > 0
    /\ run.simplified_agent_counts_over_time[Len(run.time_points) - 1] = 0
    /\ PendingReleases(run) > 0
    /\ Cardinality(run.users) < NUM_AGENTS_SIMPLIFIED
    /\ Cardinality(AtGate(run)) = NUM_AGENTS_SIMPLIFIED - NUM_AGENTS_FULL

\* the instant at which the i-th request to enter service entered it
EnteredAt(s, i) == s.req[s.entered[i]].arrival_time + s.waiting_times[i]

\* C18 as stated: a request granted its raw slot while the mode is simplified
\* is never polling at the gate, and enters service at the instant of the
\* grant.
C18_NoDelayGrantedInSimplified ==
    \A i \in 1..Len(run.granted) :
       run.granted_mode[i] = "simplified" =>
          /\ run.req[run.granted[i]].st # "wait_gate"
          /\ \A j \in 1..Len(run.entered) :
                run.entered[j] = run.granted[i] =>
                   EnteredAt(run, j) = run.granted_at[i]

\* the first gate check of request id: the step that delivers its grant
FirstCheck(id) ==
    /\ id <= run.request_id
    /\ run.req[id].st = "wait_slot"
    /\ run'.req[id].st # "wait_slot"

\* C18, amended: a request whose first gate check is made while the mode is
\* simplified finds busy_agents < available_agents and enters service in that
\* step, at the instant at which it was granted its raw slot.
C18_NoDelayCheckedInSimplified ==
    [][\A i \in 1..Len(run.granted) :
          (FirstCheck(run.granted[i]) /\ run.agent_type = "simplified") =>
             /\ run.busy_agents < run.available_agents
             /\ run'.req[run.granted[i]].st = "in_service"
             /\ run'.now = run.granted_at[i]
             /\ Last(run'.entered) = run.granted[i]
             /\ Last(run'.waiting_times) =
                    run.granted_at[i] - run.req[run.granted[i]].arrival_time]_vars

\* a request that waited for its raw slot has entered service in simplified
\* mode at the instant of its grant, as the last of NUM_AGENTS_SIMPLIFIED busy
\* agents
C18_Witness ==
    /\ run.agent_type = "simplified"
    /\ run.busy_agents = NUM_AGENTS_SIMPLIFIED
    /\ Len(run.entered) > 0
    /\ Last(run.entered_mode) = "simplified"
    /\ run.req[Last(run.entered)].st = "in_service"
    /\ Last(run.waiting_times) > 0
    /\ \E i \in 1..Len(run.granted) :
          /\ run.granted[i] = Last(run.entered)
          /\ run.granted_mode[i] = "simplified"
          /\ run.granted_at[i] = EnteredAt(run, Len(run.entered))
          /\ run.granted_at[i] = run.now

\* the generator's next request is due with MaxLive requests in the system
Postponing ==
    /\ run.pc = "running"
    /\ run.request_id >= MaxLive
    /\ \E i \in NextEvents(run.queue) : run.queue[i].kind = "GenTimeout"

\* C19: with no horizon, a request polling at the gate eventually enters
\* service.  Stated of the request that has been in the system longest
\* (number 1 after renumbering; it keeps that number until it is done), for
\* the runs in which no request of the generator is ever put off; every
\* service ends, since its Service event is processed after the drawn time.
C19_NoStarvationAtGate ==
    \/ <>Postponing
    \/ (run.request_id >= 1 /\ run.req[1].st = "wait_gate")
           ~> (run.request_id >= 1 /\ run.req[1].st = "in_service")

====
